---- MODULE Spec2Model ----
(***************************************************************************)
(* flask-s3-server: FlaskWebServer (src/flask_s3_server/__main__.py).      *)
(*                                                                         *)
(* The state is the functools.lru_cache wrapped around download_prefix,    *)
(* the local disk under cache_prefix, the remote store, and one record of  *)
(* local variables per request handler thread (Flask serves each request   *)
(* on its own thread).  LruPathEntry objects have identity: an object is   *)
(* finalized (__del__) when the last reference to it - the cache link or a *)
(* handler's local variable - is dropped.                                  *)
(*                                                                         *)
(* Strings that are paths are sequences of their '/'-separated components. *)
(*                                                                         *)
(* Steps.  A handler takes one step for the checks and the cache lookup of *)
(* get_s3_prefix, one for the clean-up at the start of download_prefix,    *)
(* one per call of _recursive_download, one for the packaging at the end   *)
(* of download_prefix, one for the registration by the lru_cache wrapper   *)
(* and one for send_file and the return.  The lookup and the registration  *)
(* are atomic as in functools (the function itself runs outside the lock,  *)
(* so two handlers can miss on the same key).  Finalization follows        *)
(* CPython's reference counting: __del__ runs in the step that drops the   *)
(* last reference, and is taken as one step.                               *)
(***************************************************************************)
EXTENDS Integers, Sequences, FiniteSets, TLC

\* --cache-size: the capacities the server is started with.  Three prefixes
\* can be cached, so these are the capacities at which entries are evicted.
CacheSizes == {1, 2}

\* Number of requests the server receives: when handlers run concurrently,
\* and when requests are served one after the other.
MaxRequests == 3
MaxSeqRequests == 4

\* Number of times the finalizer of the server runs.
MaxShutdowns == 2

\* Request handler threads.
Handlers == {"h1", "h2"}

\* --bucket: the allowed bucket prefixes.
buckets == {<<"b">>}

\* os.path.join(cache_prefix, self.__class__.__name__)
cache_prefix == <<"FlaskWebServer">>

\* ---------------------------------------------------------------- remote store
\* Objects of the remote store.  b/f and b/g are leaf objects, b/d is a
\* directory whose children come and go: the leaf b/d/x and the directory
\* b/d/s with its leaf b/d/s/y.  b/m does not exist, z/f is in another bucket.
KeyF == <<"b", "f">>
KeyG == <<"b", "g">>
KeyD == <<"b", "d">>
KeyM == <<"b", "m">>
KeyZ == <<"z", "f">>
NoPath == <<>>

Paths == {KeyF, KeyG, KeyD, KeyM, KeyZ}

ChildNames == <<"s", "x", "y">>

StoreDirs(r) == {KeyD} \cup (IF "s" \in r THEN {KeyD \o <<"s">>} ELSE {})

StoreLeaves(r) ==
    {KeyF, KeyG, KeyZ}
        \cup (IF "x" \in r THEN {KeyD \o <<"x">>} ELSE {})
        \cup (IF "s" \in r THEN {KeyD \o <<"s", "y">>} ELSE {})

fs_isdir(r, p) == p \in StoreDirs(r)

fs_exists(r, p) == p \in StoreDirs(r) \cup StoreLeaves(r)

\* fs.ls(prefix): the directory itself (line 104: "the first item, which is
\* the directory itself"), then its children in name order.
fs_ls(r, p) ==
    <<p>> \o SelectSeq([i \in 1..Len(ChildNames) |-> p \o <<ChildNames[i]>>],
                       LAMBDA q : fs_exists(r, q))

\* ---------------------------------------------------------------- strings, paths
RECURSIVE JoinSlash(_)
JoinSlash(s) ==
    IF s = <<>> THEN ""
    ELSE IF Len(s) = 1 THEN s[1]
    ELSE s[1] \o "/" \o JoinSlash(Tail(s))

\* A hash that gives every string the same name.
hash_string_fixed(string) == "md5()"

\* hashlib.md5(string).hexdigest(): one name per string, distinct strings
\* give distinct names.
hash_string(string) == "md5(" \o JoinSlash(string) \o ")"

\* path.startswith(p)
startswith(s, p) == Len(p) <= Len(s) /\ SubSeq(s, 1, Len(p)) = p

\* os.path.split(path) = (head, tail)
os_path_split(p) == <<SubSeq(p, 1, Len(p) - 1), p[Len(p)]>>

\* ---------------------------------------------------------------- local disk
\* disk maps each existing local path to its node.  A node is a directory or
\* a regular file; a file's data is the set of things it holds: the remote
\* object it is a copy of, or the member paths of a tar archive.
DirNode == [type |-> "dir", data |-> {}]
FileNode(data) == [type |-> "file", data |-> data]

os_path_exists(d, p) == p \in DOMAIN d
os_path_isdir(d, p) == p \in DOMAIN d /\ d[p].type = "dir"
os_path_isfile(d, p) == p \in DOMAIN d /\ d[p].type = "file"

Ancestors(p) == {SubSeq(p, 1, n) : n \in 1..(Len(p) - 1)}

mkdir_p(d, p) ==
    [q \in DOMAIN d \cup Ancestors(p) \cup {p} |->
        IF q \in DOMAIN d THEN d[q] ELSE DirNode]

shutil_rmtree(d, p) ==
    [q \in {q \in DOMAIN d : ~startswith(q, p)} |-> d[q]]

os_remove(d, p) == [q \in DOMAIN d \ {p} |-> d[q]]

\* fs.download(prefix, destination): the local copy, parents created.
fs_download(d, prefix, destination) ==
    [q \in DOMAIN d \cup Ancestors(destination) \cup {destination} |->
        IF q = destination THEN FileNode({prefix})
        ELSE IF q \in DOMAIN d THEN d[q] ELSE DirNode]

\* shutil.make_archive(base, 'gztar', root_dir): base.tar.gz holding every
\* path under root_dir, relative to it.
TarName(base) == SubSeq(base, 1, Len(base) - 1) \o <<base[Len(base)] \o ".tar.gz">>

shutil_make_archive(d, base, root_dir) ==
    LET members == {SubSeq(q, Len(root_dir) + 1, Len(q)) :
                        q \in {q \in DOMAIN d : startswith(q, root_dir) /\ q # root_dir}}
        tar == TarName(base)
    IN  [q \in DOMAIN d \cup {tar} |-> IF q = tar THEN FileNode(members) ELSE d[q]]

\* ---------------------------------------------------------------- LruPathEntry
NoEntry == [id |-> 0, path |-> <<>>]

\* LruPathEntry.__del__ without the os.remove branch.
LruPathEntry_del_dirs_only(d, path) ==
    IF os_path_isdir(d, path) THEN shutil_rmtree(d, path) ELSE d

\* LruPathEntry.__del__
LruPathEntry_del(d, path) ==
    IF os_path_exists(d, path)
    THEN IF os_path_isdir(d, path) THEN shutil_rmtree(d, path)
         ELSE IF os_path_isfile(d, path) THEN os_remove(d, path)
         ELSE d
    ELSE d

VARIABLES
    cache_size,     \* self.cache_size, the maxsize of the lru_cache
    cache,          \* lru_cache: sequence of [key, result], least recent first
    disk,           \* the local filesystem
    remote,         \* children of b/d present in the remote store
    pc,             \* per handler: where it is in get_s3_prefix
    path,           \* per handler: the path of the request
    todo,           \* per handler: pending calls of _recursive_download
    cached_paths,   \* per handler: cached_paths collected so far
    held,           \* per handler: the LruPathEntry its locals refer to
    resp,           \* per handler: the last response
    nreq,           \* number of requests received so far
    recent,         \* history: registered keys, least recently got first
    fetched,        \* history, per handler: remote objects downloaded by the
                    \* materialization in progress
    cleaned,        \* history, per handler: line 136 removed a directory
                    \* that an earlier attempt had left
    missed,         \* history, per handler: the lookup of its request in
                    \* the lru_cache found nothing
    calls,          \* history, per handler: calls of download_prefix made
                    \* for its request
    shutdowns       \* number of times FlaskWebServer.__del__ has run

vars == <<cache_size, cache, disk, remote, pc, path, todo, cached_paths, held,
          resp, nreq, recent, fetched, cleaned, missed, calls, shutdowns>>

\* ---------------------------------------------------------------- responses
NoResp == [kind |-> "none", status |-> 0, why |-> "none"]

splash(why) == [kind |-> "splash", status |-> 200, why |-> why]

access_error(why) == [kind |-> "access_error", status |-> 405, why |-> why]

not_found_error(why) == [kind |-> "not_found_error", status |-> 405, why |-> why]

generic_error(why) == [kind |-> "generic_error", status |-> 500, why |-> why]

send_file(d, p) ==
    IF os_path_isfile(d, p)
    THEN [kind |-> "send_file", status |-> 200, why |-> "ok"]
    ELSE generic_error(IF os_path_exists(d, p) THEN "IsADirectoryError"
                       ELSE "FileNotFoundError")

\* The except clauses of get_s3_prefix.
except_clause(exc) ==
    IF exc = "PermissionError" THEN access_error(exc) ELSE generic_error(exc)

\* Exceptions a call of the store client can raise.
StoreErrors == {"PermissionError", "OSError"}

\* ---------------------------------------------------------------- lru_cache
CacheKeys(c) == [i \in 1..Len(c) |-> c[i].key]

KeySet(c) == {c[i].key : i \in 1..Len(c)}

Results(c) == {c[i].result : i \in 1..Len(c)}

CacheIndex(c, key) == CHOOSE i \in 1..Len(c) : c[i].key = key

Without(c, i) == SubSeq(c, 1, i - 1) \o SubSeq(c, i + 1, Len(c))

\* lru_hit that leaves the link where it is.
lru_hit_in_place(c, key) == c

\* A hit moves the link to the most recently used end.
lru_hit(c, key) ==
    LET i == CacheIndex(c, key) IN Without(c, i) \o <<c[i]>>

\* lru_full with the comparison off by one.
lru_full_late(c, maxsize) == Len(c) > maxsize


lru_full(c, maxsize) == Len(c) >= maxsize

\* After the call: if the key was added meanwhile the result is only
\* returned; if the cache is full the oldest link is replaced; otherwise a
\* link is appended.
lru_insert(c, maxsize, key, result) ==
    IF key \in KeySet(c) THEN c
    ELSE IF lru_full(c, maxsize) THEN Tail(c) \o <<[key |-> key, result |-> result]>>
    ELSE c \o <<[key |-> key, result |-> result]>>

\* The lookup of the lru_cache wrapper when the cache is switched off.
lru_lookup_disabled(c, key) == FALSE

\* The lookup of the lru_cache wrapper (line 185): the key is registered.
lru_lookup(c, key) == key \in KeySet(c)

\* The results dropped from the cache by going from c to c2.
Dropped(c, c2) == Results(c) \ Results(c2)

\* History of gets: `key` becomes the most recently got key, keys that are
\* no longer registered in c2 are forgotten.
Touch(r, key, c2) ==
    SelectSeq(r, LAMBDA k : k # key /\ k \in KeySet(c2)) \o <<key>>

\* ---------------------------------------------------------------- references
\* Ids of the LruPathEntry objects that are referenced from somewhere.
LiveIds(c, hd) ==
    ({c[i].result.id : i \in 1..Len(c)} \cup {hd[h].id : h \in Handlers}) \ {0}

NewId(c, hd) ==
    CHOOSE n \in 1..(Cardinality(LiveIds(c, hd)) + 1) :
        /\ n \notin LiveIds(c, hd)
        /\ \A m \in 1..(n - 1) : m \in LiveIds(c, hd)

\* Finalize the objects of `objs` that nothing in (c, hd) refers to any more.
RECURSIVE Finalize(_, _, _, _)
Finalize(d, objs, c, hd) ==
    IF objs = {} THEN d
    ELSE LET e == CHOOSE e \in objs : TRUE
             d2 == IF e.id \in LiveIds(c, hd) \/ e.id = 0 THEN d
                   ELSE LruPathEntry_del(d, e.path)
         IN  Finalize(d2, objs \ {e}, c, hd)

\* ---------------------------------------------------------------- handlers
TypeOK ==
    /\ cache_size \in CacheSizes
    /\ remote \subseteq {"x", "s"}
    /\ nreq \in 0..(MaxRequests + MaxSeqRequests)
    /\ shutdowns \in 0..MaxShutdowns
    /\ \A h \in Handlers :
        /\ pc[h] \in {"idle", "download_prefix", "recursive", "insert", "send"}
        /\ path[h] \in Paths \cup {NoPath}
        /\ held[h].id \in 0..(cache_size + Cardinality(Handlers))
        /\ missed[h] \in BOOLEAN
        /\ calls[h] \in 0..1

Init ==
    /\ cache_size \in CacheSizes
    /\ cache = <<>>
    /\ disk = mkdir_p(<<>> :> DirNode, cache_prefix)
    /\ remote = {"x", "s"}
    /\ pc = [h \in Handlers |-> "idle"]
    /\ path = [h \in Handlers |-> NoPath]
    /\ todo = [h \in Handlers |-> <<>>]
    /\ cached_paths = [h \in Handlers |-> <<>>]
    /\ held = [h \in Handlers |-> NoEntry]
    /\ resp = [h \in Handlers |-> NoResp]
    /\ nreq = 0
    /\ recent = <<>>
    /\ fetched = [h \in Handlers |-> {}]
    /\ cleaned = [h \in Handlers |-> FALSE]
    /\ missed = [h \in Handlers |-> FALSE]
    /\ calls = [h \in Handlers |-> 0]
    /\ shutdowns = 0

\* get_s3_prefix returns `r`, the disk being d: the locals of the handler go
\* away, and with them its reference to the entry it held.
Return(h, r, d) ==
    LET hd == [held EXCEPT ![h] = NoEntry] IN
    /\ resp' = [resp EXCEPT ![h] = r]
    /\ pc' = [pc EXCEPT ![h] = "idle"]
    /\ path' = [path EXCEPT ![h] = NoPath]
    /\ todo' = [todo EXCEPT ![h] = <<>>]
    /\ cached_paths' = [cached_paths EXCEPT ![h] = <<>>]
    /\ fetched' = [fetched EXCEPT ![h] = {}]
    /\ cleaned' = [cleaned EXCEPT ![h] = FALSE]
    /\ missed' = [missed EXCEPT ![h] = FALSE]
    /\ calls' = [calls EXCEPT ![h] = 0]
    /\ held' = hd
    /\ disk' = Finalize(d, {held[h]}, cache', hd)

\* An exception that the cache memoizes as the result of the call.
Raise_memoized(h, exc, d) ==
    /\ cache' = lru_insert(cache, cache_size, path[h], NoEntry)
    /\ recent' = recent
    /\ Return(h, except_clause(exc), d)

\* An exception leaves download_prefix: the lru_cache registers nothing and
\* get_s3_prefix answers from its except clauses.
Raise(h, exc, d) ==
    /\ cache' = cache
    /\ recent' = recent
    /\ Return(h, except_clause(exc), d)

\* get_s3_prefix without the check of line 180.
in_buckets_unchecked(p) == TRUE

\* Line 180: the path starts with one of the allowed bucket prefixes.
in_buckets(p) == \E b \in buckets : startswith(p, b)

\* get_s3_prefix up to the lookup in the lru_cache (lines 177-185).
get_s3_prefix(h, p) ==
    /\ shutdowns = 0
    /\ pc[h] = "idle"
    /\ nreq' = nreq + 1
    /\ IF p = NoPath THEN
            /\ UNCHANGED <<cache, recent>>
            /\ Return(h, splash("no_path"), disk)
       ELSE IF ~in_buckets(p) THEN
            /\ UNCHANGED <<cache, recent>>
            /\ Return(h, access_error("not_allowed"), disk)
       ELSE IF ~fs_exists(remote, p) THEN
            /\ UNCHANGED <<cache, recent>>
            /\ Return(h, not_found_error("not_exists"), disk)
       ELSE IF lru_lookup(cache, p) THEN
            /\ cache' = lru_hit(cache, p)
            /\ recent' = Touch(recent, p, cache')
            /\ held' = [held EXCEPT ![h] = cache[CacheIndex(cache, p)].result]
            /\ pc' = [pc EXCEPT ![h] = "send"]
            /\ path' = [path EXCEPT ![h] = p]
            /\ resp' = [resp EXCEPT ![h] = NoResp]
            /\ UNCHANGED <<disk, todo, cached_paths, fetched, cleaned, missed, calls>>
       ELSE
            /\ pc' = [pc EXCEPT ![h] = "download_prefix"]
            /\ path' = [path EXCEPT ![h] = p]
            /\ resp' = [resp EXCEPT ![h] = NoResp]
            /\ missed' = [missed EXCEPT ![h] = TRUE]
            /\ UNCHANGED <<cache, recent, disk, todo, cached_paths, held, fetched,
                           cleaned, calls>>
    /\ UNCHANGED <<shutdowns, cache_size, remote>>

\* get_s3_prefix when fs.exists raises (line 182).
exists_raises(h, p, exc) ==
    /\ shutdowns = 0
    /\ pc[h] = "idle"
    /\ nreq' = nreq + 1
    /\ p # NoPath
    /\ in_buckets(p)
    /\ Raise(h, exc, disk)
    /\ UNCHANGED <<shutdowns, cache_size, remote>>

\* A request arrives while other handlers may be running.
Request(h, p) == nreq < MaxRequests /\ get_s3_prefix(h, p)

ExistsFails(h, p, exc) == nreq < MaxRequests /\ exists_raises(h, p, exc)

\* A request arrives when no handler is running.
AllIdle == \A h \in Handlers : pc[h] = "idle"

SeqHandler == CHOOSE h \in Handlers : TRUE

SeqRequest(p) ==
    AllIdle /\ nreq < MaxSeqRequests /\ get_s3_prefix(SeqHandler, p)

SeqExistsFails(p, exc) ==
    AllIdle /\ nreq < MaxSeqRequests /\ exists_raises(SeqHandler, p, exc)

caching_dir_of(prefix) == cache_prefix \o <<hash_string(prefix)>>

compressed_caching_dir_of(r, prefix) ==
    IF fs_isdir(r, prefix) THEN TarName(caching_dir_of(prefix)) ELSE <<>>

\* download_prefix without lines 134-136.
clean_up_skipped(d, caching_dir) == d

\* Lines 134-136: clean up previously cached files.
clean_up(d, caching_dir) ==
    IF os_path_isdir(d, caching_dir) THEN shutil_rmtree(d, caching_dir) ELSE d

\* download_prefix called with the lock of the cache held until it returns:
\* it waits for the calls of the other handlers to end.
DownloadPrefix_locked(h) ==
    /\ \A g \in Handlers \ {h} : pc[g] \notin {"recursive", "insert"}
    /\ pc[h] = "download_prefix"
    /\ LET caching_dir == caching_dir_of(path[h]) IN
        /\ disk' = clean_up(disk, caching_dir)
        /\ todo' = [todo EXCEPT
                ![h] = <<[prefix |-> path[h], caching_dir |-> caching_dir]>>]
    /\ cached_paths' = [cached_paths EXCEPT ![h] = <<>>]
    /\ fetched' = [fetched EXCEPT ![h] = {}]
    /\ cleaned' = [cleaned EXCEPT ![h] = os_path_isdir(disk, caching_dir_of(path[h]))]
    /\ pc' = [pc EXCEPT ![h] = "recursive"]
    /\ calls' = [calls EXCEPT ![h] = calls[h] + 1]
    /\ UNCHANGED <<nreq, shutdowns, cache_size, cache, recent, remote, path, held, resp, missed>>

\* download_prefix, lines 127-139: remove what an earlier attempt left, then
\* call _recursive_download on the prefix.
DownloadPrefix(h) ==
    /\ pc[h] = "download_prefix"
    /\ LET caching_dir == caching_dir_of(path[h]) IN
        /\ disk' = clean_up(disk, caching_dir)
        /\ todo' = [todo EXCEPT
                ![h] = <<[prefix |-> path[h], caching_dir |-> caching_dir]>>]
    /\ cached_paths' = [cached_paths EXCEPT ![h] = <<>>]
    /\ fetched' = [fetched EXCEPT ![h] = {}]
    /\ cleaned' = [cleaned EXCEPT ![h] = os_path_isdir(disk, caching_dir_of(path[h]))]
    /\ pc' = [pc EXCEPT ![h] = "recursive"]
    /\ calls' = [calls EXCEPT ![h] = calls[h] + 1]
    /\ UNCHANGED <<nreq, shutdowns, cache_size, cache, recent, remote, path, held, resp, missed>>

\* One call of _recursive_download: a directory is created locally and its
\* children are queued in listing order; a leaf is downloaded.
RecursiveDownload(h) ==
    /\ pc[h] = "recursive"
    /\ todo[h] # <<>>
    /\ LET prefix == Head(todo[h]).prefix
           caching_dir == Head(todo[h]).caching_dir
       IN  IF fs_isdir(remote, prefix) THEN
                LET current_dir == os_path_split(prefix)[2]
                    prefixes_to_download == Tail(fs_ls(remote, prefix))
                    new_dir == caching_dir \o <<current_dir>>
                IN  /\ disk' = mkdir_p(disk, new_dir)
                    /\ todo' = [todo EXCEPT ![h] =
                            [i \in 1..Len(prefixes_to_download) |->
                                [prefix |-> prefixes_to_download[i],
                                 caching_dir |-> new_dir]] \o Tail(todo[h])]
                    /\ cached_paths' = [cached_paths EXCEPT
                            ![h] = Append(cached_paths[h], new_dir)]
                    /\ UNCHANGED <<cache, recent, pc, path, held, resp, fetched,
                                   cleaned, missed, calls>>
           ELSE IF fs_exists(remote, prefix) THEN
                LET fn == os_path_split(prefix)[2]
                    destination == caching_dir \o <<fn>>
                IN  /\ disk' = fs_download(disk, prefix, destination)
                    /\ todo' = [todo EXCEPT ![h] = Tail(todo[h])]
                    /\ cached_paths' = [cached_paths EXCEPT
                            ![h] = Append(cached_paths[h], destination)]
                    /\ fetched' = [fetched EXCEPT ![h] = fetched[h] \cup {prefix}]
                    /\ UNCHANGED <<cache, recent, pc, path, held, resp, cleaned,
                                   missed, calls>>
           ELSE Raise(h, "FileNotFoundError", disk)
    /\ UNCHANGED <<nreq, shutdowns, cache_size, remote>>

\* A call of the store client (isdir, ls, download) raises.
StoreFails(h, exc) ==
    /\ pc[h] = "recursive"
    /\ todo[h] # <<>>
    /\ Raise(h, exc, disk)
    /\ UNCHANGED <<nreq, shutdowns, cache_size, remote>>

\* download_prefix, lines 141-157: the result of the materialization.
Package(h) ==
    /\ pc[h] = "recursive"
    /\ todo[h] = <<>>
    /\ LET caching_dir == caching_dir_of(path[h])
           compressed_caching_dir == compressed_caching_dir_of(remote, path[h])
           removed == IF os_path_isfile(disk, compressed_caching_dir)
                      THEN os_remove(disk, compressed_caching_dir) ELSE disk
       IN  IF Len(cached_paths[h]) = 0 THEN
                Raise(h, "FileNotFoundError", disk)
           ELSE IF Len(cached_paths[h]) > 1 THEN
                IF os_path_isdir(removed, caching_dir) THEN
                    /\ disk' = shutil_rmtree(
                            shutil_make_archive(removed, caching_dir, caching_dir),
                            caching_dir)
                    /\ held' = [held EXCEPT ![h] =
                            [id |-> NewId(cache, held), path |-> compressed_caching_dir]]
                    /\ pc' = [pc EXCEPT ![h] = "insert"]
                    /\ UNCHANGED <<cache, recent, path, todo, cached_paths, resp,
                                   fetched, cleaned, missed, calls>>
                ELSE Raise(h, "FileNotFoundError", removed)
           ELSE
                /\ held' = [held EXCEPT ![h] =
                        [id |-> NewId(cache, held), path |-> cached_paths[h][1]]]
                /\ pc' = [pc EXCEPT ![h] = "insert"]
                /\ UNCHANGED <<cache, recent, disk, path, todo, cached_paths, resp,
                               fetched, cleaned, missed, calls>>
    /\ UNCHANGED <<nreq, shutdowns, cache_size, remote>>

\* The lru_cache wrapper after the call returned (line 78): register the
\* result; a result it drops is finalized unless a handler still holds it.
Insert(h) ==
    /\ pc[h] = "insert"
    /\ cache' = lru_insert(cache, cache_size, path[h], held[h])
    /\ recent' = IF path[h] \in KeySet(cache) THEN recent
                 ELSE Touch(recent, path[h], cache')
    /\ disk' = Finalize(disk, Dropped(cache, cache'), cache', held)
    /\ pc' = [pc EXCEPT ![h] = "send"]
    /\ UNCHANGED <<nreq, shutdowns, cache_size, remote, path, todo, cached_paths, held, resp,
                   fetched, cleaned, missed, calls>>

\* Line 186 and the return of get_s3_prefix.
SendFile(h) ==
    /\ pc[h] = "send"
    /\ UNCHANGED <<cache, recent>>
    /\ Return(h, send_file(disk, held[h].path), disk)
    /\ UNCHANGED <<nreq, shutdowns, cache_size, remote>>

\* The remote store changes: a child of b/d is deleted.
StoreChange(c) ==
    /\ c \in remote
    /\ remote' = remote \ {c}
    /\ UNCHANGED <<nreq, shutdowns, cache_size, cache, recent, disk, pc, path, todo,
                   cached_paths, held, resp, fetched, cleaned, missed, calls>>

\* FlaskWebServer.__del__ with os.rmdir in the place of shutil.rmtree.
FlaskWebServer_del_rmdir(d) ==
    IF os_path_exists(d, cache_prefix)
        /\ ~(\E q \in DOMAIN d : q # cache_prefix /\ startswith(q, cache_prefix))
    THEN shutil_rmtree(d, cache_prefix)
    ELSE d

\* FlaskWebServer.__del__, lines 81-85.
FlaskWebServer_del(d) ==
    IF os_path_exists(d, cache_prefix) THEN shutil_rmtree(d, cache_prefix) ELSE d

\* The server is finalized.  The routes of the Flask application refer to
\* the server, so this happens when the application serves no more: no
\* handler is running and no request arrives afterwards.  The lru_cache is
\* an attribute of the server (line 79) and goes with it; the entries it
\* drops are finalized before or after __del__ runs, and either way what
\* they name is gone once shutil.rmtree has run.
Shutdown ==
    /\ AllIdle
    /\ shutdowns < MaxShutdowns
    /\ shutdowns' = shutdowns + 1
    /\ cache' = <<>>
    /\ recent' = <<>>
    /\ disk' = Finalize(FlaskWebServer_del(disk), Results(cache), <<>>, held)
    /\ UNCHANGED <<nreq, cache_size, remote, pc, path, todo, cached_paths, held,
                   resp, fetched, cleaned, missed, calls>>

Next ==
    \/ \E h \in Handlers, p \in Paths \cup {NoPath} : Request(h, p)
    \/ \E h \in Handlers, p \in Paths, exc \in StoreErrors : ExistsFails(h, p, exc)
    \/ \E h \in Handlers : DownloadPrefix(h)
    \/ \E h \in Handlers : RecursiveDownload(h)
    \/ \E h \in Handlers, exc \in StoreErrors : StoreFails(h, exc)
    \/ \E h \in Handlers : Package(h)
    \/ \E h \in Handlers : Insert(h)
    \/ \E h \in Handlers : SendFile(h)
    \/ \E c \in {"x", "s"} : StoreChange(c)
    \/ Shutdown

Spec == Init /\ [][Next]_vars

\* Requests served one after the other.
NextSeq ==
    \/ \E p \in Paths \cup {NoPath} : SeqRequest(p)
    \/ \E p \in Paths, exc \in StoreErrors : SeqExistsFails(p, exc)
    \/ \E h \in Handlers : DownloadPrefix(h)
    \/ \E h \in Handlers : RecursiveDownload(h)
    \/ \E h \in Handlers, exc \in StoreErrors : StoreFails(h, exc)
    \/ \E h \in Handlers : Package(h)
    \/ \E h \in Handlers : Insert(h)
    \/ \E h \in Handlers : SendFile(h)
    \/ \E c \in {"x", "s"} : StoreChange(c)
    \/ Shutdown

SpecSeq == Init /\ [][NextSeq]_vars

\* ---------------------------------------------------------------- properties
Materializing(h) == pc[h] \in {"recursive", "insert"}

LeafPath(key) == caching_dir_of(key) \o <<os_path_split(key)[2]>>

\* Handler h registers a new entry in a cache that is full.
InsertsAtFull(h) ==
    /\ pc[h] = "insert"
    /\ pc'[h] = "send"
    /\ path[h] \notin KeySet(cache)
    /\ Len(cache) = cache_size

\* The materialization of handler h ends with an exception.
MaterializationFails(h) == pc[h] = "recursive" /\ pc'[h] = "idle"

\* C1: in every state, whatever gets have run and however they interleave,
\* the number of entries registered in the cache is at most the capacity.
C1_CapacityInvariant == Len(cache) <= cache_size

\* Capacity 1, b/f was materialized and then evicted by b/g, all gets done.
C1_Witness ==
    /\ cache_size = 1
    /\ CacheKeys(cache) = <<KeyG>>
    /\ AllIdle
    /\ os_path_isdir(disk, caching_dir_of(KeyF))

\* C2: an insertion into a full cache evicts exactly one entry, the one whose
\* most recent get (hit or insertion) is the oldest among the registered
\* keys, and every other entry stays registered; so with capacity 2,
\* get(A), get(B), get(A), get(C) evicts B and keeps A and C.
C2_LruEviction ==
    [][\A h \in Handlers : InsertsAtFull(h) =>
            LET victim == Head(recent) IN
            /\ {recent[i] : i \in 1..Len(recent)} = KeySet(cache)
            /\ KeySet(cache') = (KeySet(cache) \ {victim}) \cup {path[h]}
            /\ Dropped(cache, cache') = {cache[CacheIndex(cache, victim)].result}
            /\ \A i \in 1..Len(cache) :
                    cache[i].key # victim => cache[i] \in {cache'[j] : j \in 1..Len(cache')}
      ]_vars

\* Capacity 2 after get(b/d), get(b/f), get(b/d), get(b/g): b/f is gone (its
\* file is deleted), b/d (the first entry made) and b/g are registered.
C2_Witness ==
    /\ cache_size = 2
    /\ AllIdle
    /\ nreq = 4
    /\ CacheKeys(cache) = <<KeyD, KeyG>>
    /\ cache[1].result.id = 1
    /\ cache[2].result.id = 3
    /\ os_path_isdir(disk, caching_dir_of(KeyF))
    /\ ~os_path_exists(disk, LeafPath(KeyF))

\* C3: single-flight: download_prefix(P) is never running in two handlers at
\* once for the same prefix P.
C3_SingleFlight ==
    \A g, h \in Handlers :
        (g # h /\ Materializing(g) /\ Materializing(h)) => path[g] # path[h]

\* C4: every entry registered in the cache has its artifact on disk.
C4_RegisteredArtifactOnDisk ==
    \A i \in 1..Len(cache) : os_path_exists(disk, cache[i].result.path)

\* C5: a path outside the allow-list is answered with a 403-class status, a
\* path the store does not have with a 404-class status, any other failure
\* with a 500-class status.
C5_DistinguishableStatus ==
    \A h \in Handlers :
        /\ resp[h].why = "not_allowed" => resp[h].status = 403
        /\ resp[h].why = "not_exists" => resp[h].status = 404
        /\ resp[h].why \in {"OSError", "FileNotFoundError", "IsADirectoryError"}
                => resp[h].status \in 500..599

\* C6: a get(P) whose materialization fails registers nothing and evicts
\* nothing: the cache is as it was, and P is not registered, so the next
\* get(P) is a miss.
C6_FailedGetRegistersNothing ==
    [][\A h \in Handlers : MaterializationFails(h) =>
            /\ cache' = cache
            /\ path[h] \notin KeySet(cache')
      ]_vars

\* The cache is full, a get(b/d) has just failed part-way (its directory is
\* on disk) and b/d is not registered.
C6_Witness ==
    /\ AllIdle
    /\ Len(cache) = cache_size
    /\ resp[SeqHandler].why = "OSError"
    /\ os_path_isdir(disk, caching_dir_of(KeyD) \o <<"d", "s">>)
    /\ KeyD \notin KeySet(cache)

\* C7: download_prefix never returns an artifact for a prefix under which it
\* found no object to download.
C7_EmptyPrefixNotFound ==
    \A h \in Handlers : pc[h] = "insert" => fetched[h] # {}

\* C8: what download_prefix returns is a single file: for a leaf the copy
\* <cacheDir>/<hash(P)>/<basename(P)>, for more than one object the archive
\* <cacheDir>/<hash(P)>.tar.gz with <cacheDir>/<hash(P)> removed.
C8_Packaging ==
    \A h \in Handlers : pc[h] = "insert" =>
        /\ os_path_isfile(disk, held[h].path)
        /\ ~fs_isdir(remote, path[h]) => held[h].path = LeafPath(path[h])
        /\ Cardinality(fetched[h]) > 1 =>
                /\ held[h].path = TarName(caching_dir_of(path[h]))
                /\ ~os_path_exists(disk, caching_dir_of(path[h]))

C10_RetryIsClean ==
    [][\A h \in Handlers :
        LET caching_dir == caching_dir_of(path[h])
            tar == TarName(caching_dir)
        IN  /\ (pc[h] = "download_prefix" /\ pc'[h] = "recursive")
                    => ~os_path_exists(disk', caching_dir)
            /\ (pc[h] = "recursive" /\ pc'[h] = "insert" /\ Len(cached_paths[h]) > 1)
                    => /\ held'[h].path = tar
                       /\ os_path_isfile(disk', tar)
                       /\ disk'[tar].data =
                            {SubSeq(cached_paths[h][i], Len(caching_dir) + 1,
                                    Len(cached_paths[h][i])) :
                                i \in 1..Len(cached_paths[h])}
                       /\ \A o \in fetched[h] :
                            SubSeq(o, Len(path[h]), Len(o)) \in disk'[tar].data
      ]_vars

\* A get(b/d) that found the directory a failed attempt had left has made its
\* archive after b/d/s was deleted from the store: the archive holds b/d/x
\* alone.
C10_Witness ==
    \E h \in Handlers :
        /\ pc[h] = "insert"
        /\ path[h] = KeyD
        /\ cleaned[h]
        /\ fetched[h] = {KeyD \o <<"x">>}
        /\ disk[held[h].path].data = {<<"d">>, <<"d", "x">>}

\* C11: a get(P) for a registered P makes no call of download_prefix (no
\* download, no archive: the disk is untouched by the lookup) and holds the
\* entry that the materializing get registered, whose path it then sends;
\* and every get makes one call of download_prefix if its lookup missed and
\* none if it hit, so that over a run the calls for P are as many as the
\* misses on P.
C11_HitDoesNotMaterialize ==
    [][\A h \in Handlers :
        /\ (pc[h] = "idle" /\ pc'[h] # "idle" /\ path'[h] \in KeySet(cache))
                => /\ pc'[h] = "send"
                   /\ ~missed'[h]
                   /\ disk' = disk
                   /\ held'[h] = cache[CacheIndex(cache, path'[h])].result
        /\ (pc[h] = "send" /\ ~missed[h] /\ pc'[h] = "idle")
                => \A q \in DOMAIN disk' : q \in DOMAIN disk /\ disk'[q] = disk[q]
        /\ (pc[h] # "idle" /\ pc'[h] = "idle")
                => calls[h] = (IF missed[h] THEN 1 ELSE 0)
      ]_vars

\* The fourth get of a run is a hit on b/d, whose archive an earlier get
\* made: the handler is about to send the archive and has called
\* download_prefix not once.
C11_Witness ==
    /\ nreq = 4
    /\ pc[SeqHandler] = "send"
    /\ path[SeqHandler] = KeyD
    /\ ~missed[SeqHandler]
    /\ calls[SeqHandler] = 0
    /\ held[SeqHandler].path = TarName(caching_dir_of(KeyD))
    /\ os_path_isfile(disk, held[SeqHandler].path)
    /\ held[SeqHandler] \in Results(cache)

\* C12: a request for a path outside the allow-list, or for a path the store
\* does not have, is answered in the step that receives it: its handler
\* never goes on to the lookup or to download_prefix, no call of the store
\* can raise for a path outside the allow-list because none is made, no such
\* path is ever registered or written to the disk, and the step leaves the
\* cache, the recency order and the disk as they were.
C12_RejectedBeforeStoreAndCache ==
    [][/\ \A h \in Handlers :
            pc'[h] # "idle" => (in_buckets(path'[h]) /\ path'[h] # KeyM)
       /\ \A k \in {KeyZ, KeyM} :
            /\ k \notin KeySet(cache')
            /\ ~os_path_exists(disk', caching_dir_of(k))
       /\ \A h \in Handlers, exc \in StoreErrors : ~ENABLED exists_raises(h, KeyZ, exc)
       /\ (nreq' # nreq /\ pc' = pc)
            => (cache' = cache /\ recent' = recent /\ disk' = disk /\ held' = held)
      ]_vars

\* While a handler is materializing and an entry is registered, the other
\* handler has just refused a request outside the allow-list.
C12_Witness ==
    \E g, h \in Handlers :
        /\ pc[g] = "recursive"
        /\ calls[g] = 1
        /\ Len(cache) = 1
        /\ pc[h] = "idle"
        /\ resp[h].why = "not_allowed"
        /\ nreq = 3

\* The paths of disk d under the cache namespace, cache_prefix included.
Namespace(d) == {q \in DOMAIN d : startswith(q, cache_prefix)}

\* C13: after FlaskWebServer.__del__ has run nothing is left of the cache
\* namespace on the disk, whatever was there (artifacts of registered
\* entries, directories of failed materializations); a second run of it
\* changes nothing and raises no error.
C13_ShutdownRemovesNamespace ==
    [][/\ shutdowns' # shutdowns => Namespace(disk') = {}
       /\ shutdowns > 0 => disk' = disk
       /\ (shutdowns' > 0 /\ shutdowns' < MaxShutdowns) => ENABLED Shutdown
      ]_vars

\* The server was finalized twice at the end of a sequential run of two
\* gets, the second of which sent an artifact that was registered: nothing
\* is left under cache_prefix, the namespace directory included.
C13_Witness ==
    /\ shutdowns = 2
    /\ cache_size = 1
    /\ cache = <<>>
    /\ nreq = 2
    /\ resp[SeqHandler].kind = "send_file"
    /\ ~os_path_exists(disk, cache_prefix)

\* C14: when a materialization fails, nothing is left on the disk for its
\* prefix P in the state in which get_s3_prefix has answered: neither
\* <cacheDir>/<hash(P)> nor <cacheDir>/<hash(P)>.tar.gz exists.
C14_FailedGetLeavesNothing ==
    [][\A h \in Handlers : MaterializationFails(h) =>
            /\ ~os_path_exists(disk', caching_dir_of(path[h]))
            /\ ~os_path_exists(disk', TarName(caching_dir_of(path[h])))
      ]_vars

\* C15: in a quiescent state (no get in flight, no handler holding an entry)
\* every path under the cache namespace belongs to an entry registered in
\* the cache: it is the artifact of the entry, or a directory that holds
\* it, or a path inside it.
C15_NoLeak ==
    (AllIdle /\ \A h \in Handlers : held[h] = NoEntry) =>
        \A q \in Namespace(disk) \ {cache_prefix} :
            \E e \in Results(cache) : startswith(e.path, q) \/ startswith(q, e.path)

\* The next step of handler g in get_s3_prefix.
HandlerStep(g) ==
    \/ DownloadPrefix(g)
    \/ RecursiveDownload(g)
    \/ Package(g)
    \/ Insert(g)
    \/ SendFile(g)

\* C16: while a handler h is inside download_prefix, every other handler
\* can take its next step, whatever it is (the lookup of a new request, hit
\* or miss, the start of its own download_prefix, a download, the
\* registration, send_file): no get waits for the materialization of h.
C16_NoLockAcrossDownload ==
    \A g, h \in Handlers :
        (g # h /\ Materializing(h)) =>
            /\ pc[g] # "idle" => ENABLED HandlerStep(g)
            /\ (pc[g] = "idle" /\ nreq < MaxRequests) =>
                    \A p \in {KeyF, KeyG, KeyD} \ {path[h]} : ENABLED Request(g, p)

\* Two handlers are inside _recursive_download at the same time, for b/d and
\* for b/f, each after its own miss.
C16_Witness ==
    \E g, h \in Handlers :
        /\ pc[g] = "recursive" /\ path[g] = KeyD /\ Len(cached_paths[g]) = 1
        /\ pc[h] = "recursive" /\ path[h] = KeyF /\ todo[h] # <<>>
        /\ missed[g] /\ missed[h]
        /\ calls[g] = 1 /\ calls[h] = 1

\* The paths of disk d that are kept for key: <cacheDir>/<hash(key)> with
\* what is below it, and <cacheDir>/<hash(key)>.tar.gz.
KeyPaths(d, key) ==
    {q \in DOMAIN d : \/ startswith(q, caching_dir_of(key))
                      \/ q = TarName(caching_dir_of(key))}

\* Handler h takes the step.
Acts(h) ==
    \/ pc'[h] # pc[h]
    \/ todo'[h] # todo[h]
    \/ cached_paths'[h] # cached_paths[h]

\* C17: a step of a get(P), whichever it is and whatever the other handlers
\* are doing, leaves every path kept for another key Q on the disk with its
\* content; the one exception is the registration of a new entry in a full
\* cache, which may remove paths of the least recently used entry's
\* artifact, and of no other key.
C17_KeyIsolation ==
    [][\A h \in Handlers : (Acts(h) /\ shutdowns' = shutdowns /\ disk' # disk) =>
            LET key == IF path[h] # NoPath THEN path[h] ELSE path'[h] IN
            \A Q \in Paths \ {key} :
                \A q \in KeyPaths(disk, Q) :
                    \/ q \in DOMAIN disk' /\ disk'[q] = disk[q]
                    \/ /\ InsertsAtFull(h)
                       /\ Q = cache[1].key
                       /\ startswith(q, cache[1].result.path)
      ]_vars

\* Capacity 2, b/f and b/g were registered and the get of b/d has just
\* registered its archive: the file of b/f, the least recently used, is
\* gone, the file of b/g is there.
C17_Witness ==
    /\ cache_size = 2
    /\ CacheKeys(cache) = <<KeyG, KeyD>>
    /\ \E h \in Handlers : pc[h] = "send" /\ path[h] = KeyD /\ missed[h]
    /\ os_path_isdir(disk, caching_dir_of(KeyF))
    /\ ~os_path_exists(disk, LeafPath(KeyF))
    /\ os_path_isfile(disk, LeafPath(KeyG))
    /\ os_path_isfile(disk, TarName(caching_dir_of(KeyD)))

\* C18: whenever a handler is about to call send_file, the path of the
\* entry it holds names a regular file on the disk.
C18_SentPathIsFile ==
    \A h \in Handlers : pc[h] = "send" => os_path_isfile(disk, held[h].path)

====
